---- MODULE Spec2Model ----
(***************************************************************************)
(* The two notebooks of the repository as state machines.                  *)
(*                                                                         *)
(*   Spec    the decoding notebook (mne_decoding_DL.ipynb): a top-to-bottom *)
(*           run of its cells, one action per statement that can change    *)
(*           the kernel's namespace or stop the run.                       *)
(*   SpecTF  the LIMO coherence / ITC notebook, likewise.                  *)
(*                                                                         *)
(* A statement that raises stops the run: err records the exception and no *)
(* further action is enabled.  Calls into mne, braindecode and skorch are  *)
(* modelled by what the call does with the arguments the notebook passes.  *)
(* Amplitudes are in microvolts, frequencies in Hz, times in milliseconds. *)
(***************************************************************************)
EXTENDS Integers, Sequences, FiniteSets, TLC

VARIABLES
    pc,              \* the statement the run executes next
    err,             \* "none", or the exception that stopped the run
    ns,              \* the kernel namespace: the names that are bound
    params,          \* the literals of the cells (cutoffs, reject thresholds)
    raw,             \* the continuous recording
    events,          \* the event table (one code per event)
    seg_ptp,         \* peak-to-peak amplitude of each event's segment, per channel
    epochs,          \* the epoch collection
    sfreq, ch_names, \* cell "sfreq = ... / ch_names = ..."
    X, y,            \* names the notebook reads and never assigns
    windows_dataset, model, clf, df,
    torch,           \* torch's global state: device, cudnn.benchmark, seed
    scores,          \* the loss / accuracy values of the history, per epoch
    scores_again,    \* the values a second run of the same fit produces
    limo_epochs,     \* the LIMO epochs: channel layout and trials
    evoked,          \* the two condition averages the ERP cell plots
    difference_wave, \* Face A minus Face B
    phase_coh,       \* the phase-coherence level of each trial
    levels,          \* the sorted distinct levels
    picks,           \* positions of the channels handed to tfr_morlet
    power_high, itc_high, power_low, itc_low,
    topo             \* the topographic-map cell: values supplied, maps drawn

\* the names of the decoding notebook
decvars == <<params, raw, events, seg_ptp, epochs, sfreq, ch_names,
             X, y, windows_dataset, model, clf, df, torch, scores, scores_again>>

\* the names of the LIMO notebook
tfvars == <<limo_epochs, evoked, difference_wave, phase_coh, levels, picks,
            power_high, itc_high, power_low, itc_low, topo>>

vars == <<pc, err, ns, decvars, tfvars>>

----------------------------------------------------------------------------
(* Bounds of the model *)

MaxEvents == 5

MaxTrials == 3

----------------------------------------------------------------------------
(* Small helpers *)

Range(s) == {s[i] : i \in 1..Len(s)}

Min(a, b) == IF a <= b THEN a ELSE b

\* s[:-1]: every element but the last (the empty sequence stays empty)
ButLast(s) == IF Len(s) = 0 THEN s ELSE SubSeq(s, 1, Len(s) - 1)

----------------------------------------------------------------------------
(* Literals of the "Load and prepare data" cell *)

tmin == -200
tmax == 700

event_id ==
    ("Auditory/Left" :> 1) @@ ("Auditory/Right" :> 2) @@
    ("Visual/Left" :> 3) @@ ("Visual/Right" :> 4)

EventCodes == {event_id[k] : k \in DOMAIN event_id}

\* raw.info['bads'] += [...]
ExtraBads == <<"MEG 2443", "EEG 053">>

\* picks=('eeg', 'eog') of mne.Epochs
EpochPickKinds == {"eeg", "eog"}

\* the notebook's own literals: raw.filter(2, 40), reject=dict(eeg=150e-6, eog=150e-6)
\* (mutant) the cutoffs the comment above raw.filter speaks of
NotebookParams_AsCommented ==
    [l_freq |-> 2, h_freq |-> 20, reject |-> [eeg |-> 150, eog |-> 150]]

NotebookParams ==
    [l_freq |-> 2, h_freq |-> 40, reject |-> [eeg |-> 150, eog |-> 150]]

\* The literals are the parameters the notebook surfaces to its user; the
\* model runs the cells with the notebook's values and with a few others.
Cutoffs == {<<2, 40>>, <<40, 2>>, <<2, 400>>}

Rejects == {[eeg |-> 150, eog |-> 150], [eeg |-> 200, eog |-> 150]}

ParamSets ==
    {NotebookParams} \cup
    {[l_freq |-> c[1], h_freq |-> c[2], reject |-> r] : c \in Cutoffs, r \in Rejects}

----------------------------------------------------------------------------
(* The recording file read by mne.io.read_raw_fif(raw_fname, preload=True) *)

\* channel layout (a cut of the 376 channels of sample_audvis_raw.fif, in
\* file order: MEG, stimulus, EEG, EOG)
FileChannels ==
    << [name |-> "MEG 2443", kind |-> "grad"],
       [name |-> "STI 014",  kind |-> "stim"],
       [name |-> "EEG 052",  kind |-> "eeg"],
       [name |-> "EEG 053",  kind |-> "eeg"],
       [name |-> "EEG 060",  kind |-> "eeg"],
       [name |-> "EOG 061",  kind |-> "eog"] >>

\* sampling rates (Nyquist 40 Hz and 300 Hz) and the bad channels the file marks
SFreqs == {80, 600}
FileBads == {<< >>, <<"EEG 052">>}
NTimes == 6000

Nyquist(sf) == sf \div 2

NoRaw ==
    [sfreq |-> 0, n_times |-> 0, ch |-> << >>, bads |-> << >>,
     highpass |-> 0, lowpass |-> 0, applied |-> "none"]

read_raw_fif(sf, bads) ==
    [sfreq |-> sf, n_times |-> NTimes, ch |-> FileChannels, bads |-> bads,
     highpass |-> 0, lowpass |-> Nyquist(sf), applied |-> "none"]

----------------------------------------------------------------------------
(* raw.filter(l_freq, h_freq)                                              *)
(*                                                                         *)
(* The call designs the filter from the two cutoffs and the recording's    *)
(* sampling rate, then filters the data channels in place (zero phase, so  *)
(* the sample count is kept).  l_freq = 0 means no high-pass; l_freq <     *)
(* h_freq is a band-pass; l_freq > h_freq is a band-stop between h_freq    *)
(* and l_freq.  A pass-band edge at or above Nyquist leaves no transition  *)
(* band and raises ValueError.  For l_freq = h_freq the stop band is empty *)
(* and whether the design is accepted is not determined here: both         *)
(* outcomes are admitted.                                                  *)

\* (mutant) a design that never looks at the Nyquist frequency
filter_kinds_NoNyquist(l, h, sf) ==
    IF l = 0 THEN {"lowpass"} ELSE IF l < h THEN {"bandpass"} ELSE {"bandstop"}

filter_kinds(l, h, sf) ==
    IF h > Nyquist(sf) THEN {"ValueError"}
    ELSE IF l = 0 THEN (IF h < Nyquist(sf) THEN {"lowpass"} ELSE {"ValueError"})
    ELSE IF l < h THEN (IF h < Nyquist(sf) THEN {"bandpass"} ELSE {"ValueError"})
    ELSE IF l > h THEN (IF h > 0 /\ l < Nyquist(sf) THEN {"bandstop"} ELSE {"ValueError"})
    ELSE {"bandstop", "ValueError"}

\* (mutant) a filter that returns only the samples the kernel fully covers
filter_Valid(r, l, h, kind) ==
    [r EXCEPT !.applied = kind, !.n_times = @ - r.sfreq]

\* the recording after a filter of the given kind: data and the info's
\* highpass / lowpass change, nothing else
filter(r, l, h, kind) ==
    [r EXCEPT !.applied = kind,
              !.highpass = IF kind = "bandpass" /\ l > @ THEN l ELSE @,
              !.lowpass = IF kind \in {"bandpass", "lowpass"} /\ h < @ THEN h ELSE @]

----------------------------------------------------------------------------
(* Initial state: a kernel in which nothing of the notebook is bound *)

NoEpochs ==
    [ch |-> << >>, bads |-> << >>, sfreq |-> 0, n_times |-> 0,
     selection |-> << >>, drop_log |-> << >>, reject |-> [eeg |-> 0, eog |-> 0]]

InitPrepare ==
    /\ pc = "read_raw"
    /\ err = "none"
    /\ params \in ParamSets
    /\ raw = NoRaw
    /\ events = << >>
    /\ seg_ptp = << >>
    /\ epochs = NoEpochs
    /\ sfreq = 0
    /\ ch_names = << >>

running(stmt) == pc = stmt /\ err = "none"

\* (mutant) the exception is swallowed: the statement stays current and the
\* run is not stopped
raise_Swallowed(e) == err' = err /\ pc' = pc

\* an exception: the run stops at the statement that raised
raise(e) == err' = e /\ pc' = pc

ReadRaw ==
    /\ running("read_raw")
    /\ \E sf \in SFreqs, b \in FileBads : raw' = read_raw_fif(sf, b)
    /\ ns' = ns \cup {"raw", "event_id", "tmin", "tmax"}
    /\ pc' = "filter"
    /\ UNCHANGED <<err, params, events, seg_ptp, epochs, sfreq, ch_names,
                   X, y, windows_dataset, model, clf, df>>
    /\ UNCHANGED tfvars
    /\ UNCHANGED <<torch, scores, scores_again>>

Filter ==
    /\ running("filter")
    /\ \E kind \in filter_kinds(params.l_freq, params.h_freq, raw.sfreq) :
          IF kind = "ValueError"
          THEN raise("ValueError") /\ UNCHANGED raw
          ELSE /\ raw' = filter(raw, params.l_freq, params.h_freq, kind)
               /\ pc' = "find_events"
               /\ UNCHANGED err
    /\ UNCHANGED <<ns, params, events, seg_ptp, epochs, sfreq, ch_names,
                   X, y, windows_dataset, model, clf, df>>
    /\ UNCHANGED tfvars
    /\ UNCHANGED <<torch, scores, scores_again>>

----------------------------------------------------------------------------
(* events = mne.find_events(raw,): one code per trigger on the stimulus     *)
(* channel.  The tables enumerated cycle through the four conditions; any  *)
(* event may instead carry code 5, which event_id does not name.           *)

OtherCode == {5}

EventTables ==
    UNION {{t \in [1..n -> EventCodes \cup OtherCode] :
               \A i \in 1..n : t[i] \in {((i - 1) % 4) + 1} \cup OtherCode}
           : n \in 0..MaxEvents}

FindEvents ==
    /\ running("find_events")
    /\ \E t \in EventTables : events' = t
    /\ ns' = ns \cup {"events"}
    /\ pc' = "mark_bads"
    /\ UNCHANGED <<err, params, raw, seg_ptp, epochs, sfreq, ch_names,
                   X, y, windows_dataset, model, clf, df>>
    /\ UNCHANGED tfvars
    /\ UNCHANGED <<torch, scores, scores_again>>

\* raw.info['bads'] += ['MEG 2443', 'EEG 053']
MarkBads ==
    /\ running("mark_bads")
    /\ raw' = [raw EXCEPT !.bads = @ \o ExtraBads]
    /\ pc' = "Epochs"
    /\ UNCHANGED <<err, ns, params, events, seg_ptp, epochs, sfreq, ch_names,
                   X, y, windows_dataset, model, clf, df>>
    /\ UNCHANGED tfvars
    /\ UNCHANGED <<torch, scores, scores_again>>

----------------------------------------------------------------------------
(* epochs = mne.Epochs(raw, events, event_id, tmin, tmax, proj=True,       *)
(*                     picks=('eeg', 'eog'), baseline=(None, 0.),          *)
(*                     preload=True, reject=dict(eeg=..., eog=...), decim=1) *)

IsPicked(c) == c.kind \in EpochPickKinds

PickedChannels(r) == SelectSeq(r.ch, IsPicked)

PickedNames(r) == {c.name : c \in Range(PickedChannels(r))}

\* peak-to-peak amplitudes of one segment on the picked channels: 100
\* everywhere, or 200 on one of an EEG channel (a bad one when the file marks
\* it) and the EOG channel (200 is above a threshold of 150 and at a
\* threshold of 200)
LoudChannels == {"EEG 052", "EOG 061"}

QuietRow(r) == [n \in PickedNames(r) |-> 100]

PtpRows(r) ==
    {QuietRow(r)} \cup
    {[QuietRow(r) EXCEPT ![n] = 200] : n \in LoudChannels \cap PickedNames(r)}

\* (mutant) rejection that looks at the EEG channels only
Monitored_EegOnly(r, reject) ==
    SelectSeq(PickedChannels(r),
              LAMBDA c : c.kind = "eeg" /\ c.name \notin Range(r.bads))

\* the channels rejection looks at: picked, of a type the reject dict names,
\* and not marked bad
Monitored(r, reject) ==
    SelectSeq(PickedChannels(r),
              LAMBDA c : c.kind \in DOMAIN reject /\ c.name \notin Range(r.bads))

\* (mutant) a segment at the threshold counts as exceeding it
Offending_AtThreshold(r, reject, row) ==
    LET mon == Monitored(r, reject)
        Over(c) == row[c.name] >= reject[c.kind]
    IN  [i \in 1..Len(SelectSeq(mon, Over)) |-> SelectSeq(mon, Over)[i].name]

\* the monitored channels on which a segment exceeds its type's threshold
Offending(r, reject, row) ==
    LET mon == Monitored(r, reject)
        Over(c) == row[c.name] > reject[c.kind]
    IN  [i \in 1..Len(SelectSeq(mon, Over)) |-> SelectSeq(mon, Over)[i].name]

\* why event i is dropped; the empty tuple when it is kept
DropReason(r, evs, reject, ptp, i) ==
    IF evs[i] \notin EventCodes THEN <<"IGNORED">>
    ELSE Offending(r, reject, ptp[i])

\* number of samples of one epoch (decim = 1)
EpochSamples(sf) == ((tmax - tmin) * sf) \div 1000 + 1

\* every condition of event_id must occur in the event table (on_missing)
AllConditionsPresent(evs) == \A c \in EventCodes : c \in Range(evs)

Epochs(r, evs, reject, ptp) ==
    LET log == [i \in 1..Len(evs) |-> DropReason(r, evs, reject, ptp, i)]
        idx == [i \in 1..Len(evs) |-> i]
    IN  [ch |-> PickedChannels(r), bads |-> r.bads, sfreq |-> r.sfreq,
         n_times |-> EpochSamples(r.sfreq),
         selection |-> SelectSeq(idx, LAMBDA i : log[i] = << >>),
         drop_log |-> log, reject |-> reject]

MakeEpochs ==
    /\ running("Epochs")
    /\ IF ~AllConditionsPresent(events)
       THEN raise("ValueError") /\ UNCHANGED <<ns, seg_ptp, epochs>>
       ELSE /\ \E ptp \in [1..Len(events) -> PtpRows(raw)] :
                  /\ \A i \in 1..Len(events) :
                        events[i] \notin EventCodes => ptp[i] = QuietRow(raw)
                  /\ seg_ptp' = ptp
                  /\ epochs' = Epochs(raw, events, params.reject, ptp)
            /\ ns' = ns \cup {"epochs"}
            /\ pc' = "pick_types"
            /\ UNCHANGED err
    /\ UNCHANGED <<params, raw, events, sfreq, ch_names,
                   X, y, windows_dataset, model, clf, df>>
    /\ UNCHANGED tfvars
    /\ UNCHANGED <<torch, scores, scores_again>>

\* (mutant) pick_types without exclude='bads'
pick_types_KeepBads(e) ==
    [e EXCEPT !.ch = SelectSeq(@, LAMBDA c : c.kind = "eeg")]

\* epochs.pick_types(meg=False, eeg=True, exclude='bads'), in place
pick_types(e) ==
    [e EXCEPT !.ch = SelectSeq(@, LAMBDA c : c.kind = "eeg" /\ c.name \notin Range(e.bads))]

PickTypes ==
    /\ running("pick_types")
    /\ IF Len(pick_types(epochs).ch) = 0
       THEN raise("ValueError") /\ UNCHANGED epochs
       ELSE epochs' = pick_types(epochs) /\ pc' = "del_raw" /\ UNCHANGED err
    /\ UNCHANGED <<ns, params, raw, events, seg_ptp, sfreq, ch_names,
                   X, y, windows_dataset, model, clf, df>>
    /\ UNCHANGED tfvars
    /\ UNCHANGED <<torch, scores, scores_again>>

\* del raw
DelRaw ==
    /\ running("del_raw")
    /\ raw' = NoRaw
    /\ ns' = ns \ {"raw"}
    /\ pc' = "ch_info"
    /\ UNCHANGED <<err, params, events, seg_ptp, epochs, sfreq, ch_names,
                   X, y, windows_dataset, model, clf, df>>
    /\ UNCHANGED tfvars
    /\ UNCHANGED <<torch, scores, scores_again>>

----------------------------------------------------------------------------
(* sfreq = epochs.info["sfreq"]; ch_names = epochs.info["ch_names"] *)

ChannelNames(e) == [i \in 1..Len(e.ch) |-> e.ch[i].name]

ChInfo ==
    /\ running("ch_info")
    /\ sfreq' = epochs.sfreq
    /\ ch_names' = ChannelNames(epochs)
    /\ ns' = ns \cup {"create_from_X_y", "sfreq", "ch_names"}
    /\ pc' = "create_from_X_y"
    /\ UNCHANGED <<err, params, raw, events, seg_ptp, epochs,
                   X, y, windows_dataset, model, clf, df>>
    /\ UNCHANGED tfvars
    /\ UNCHANGED <<torch, scores, scores_again>>

----------------------------------------------------------------------------
(* windows_dataset = create_from_X_y(X[:, :-1,:], y, drop_last_window=False, *)
(*                                   sfreq=sfreq, ch_names=ch_names[:-1],)   *)
(*                                                                         *)
(* No cell assigns X or y: in a fresh kernel the argument X raises         *)
(* NameError.  A kernel that already holds X (trials x channels x samples) *)
(* and y (one label per trial) gets one window per (trial, label) pair.    *)

NoArray == [n |-> 0, c |-> 0, t |-> 0]
NoLabels == [n |-> 0, labels |-> {}, most |-> 0]

\* arrays and label vectors a kernel may hold: y is summarised by its
\* length, its set of labels and the size of its largest class
StaleKernels ==
    {[X |-> [n |-> 13, c |-> 2, t |-> 541], y |-> [n |-> 13, labels |-> 0..3, most |-> 10]],
     [X |-> [n |-> 13, c |-> 2, t |-> 541], y |-> [n |-> 13, labels |-> 1..4, most |-> 10]],
     [X |-> [n |-> 13, c |-> 2, t |-> 541], y |-> [n |-> 14, labels |-> 0..3, most |-> 10]],
     [X |-> [n |-> 13, c |-> 2, t |-> 541], y |-> [n |-> 13, labels |-> 0..3, most |-> 4]],
     [X |-> [n |-> 0, c |-> 2, t |-> 541], y |-> [n |-> 0, labels |-> {}, most |-> 0]]}

NoDataset == [n |-> 0, shape |-> <<0, 0>>, ch_names |-> << >>, sfreq |-> 0, y |-> NoLabels]

\* X[:, :-1, :]
DropLastChannel(x) == [x EXCEPT !.c = IF @ = 0 THEN 0 ELSE @ - 1]

create_from_X_y(x, labels, sf, names) ==
    [n |-> Min(x.n, labels.n), shape |-> <<x.c, x.t>>, ch_names |-> names,
     sfreq |-> sf, y |-> labels]

CreateDataset ==
    /\ running("create_from_X_y")
    /\ IF ~({"X", "y"} \subseteq ns)
       THEN raise("NameError") /\ UNCHANGED <<ns, windows_dataset>>
       ELSE LET x == DropLastChannel(X)
                names == ButLast(ch_names)
            IN  IF Min(x.n, y.n) = 0 \/ Len(names) # x.c
                THEN raise("ValueError") /\ UNCHANGED <<ns, windows_dataset>>
                ELSE /\ windows_dataset' = create_from_X_y(x, y, sfreq, names)
                     /\ ns' = ns \cup {"windows_dataset"}
                     /\ pc' = "setup_model"
                     /\ UNCHANGED err
    /\ UNCHANGED <<params, raw, events, seg_ptp, epochs, sfreq, ch_names,
                   X, y, model, clf, df>>
    /\ UNCHANGED tfvars
    /\ UNCHANGED <<torch, scores, scores_again>>

----------------------------------------------------------------------------
(* Setup model *)

n_classes == 4

NoModel == [n_chans |-> 0, n_classes |-> 0, input_window_samples |-> 0, trained |-> FALSE]

\* (mutant) a network built for every channel name of the epochs, the last
\* one included, instead of for the shape of the dataset's first window
ShallowFBCSPNet_AllChannels(ds) ==
    [n_chans |-> Len(ds.ch_names) + 1, n_classes |-> n_classes,
     input_window_samples |-> ds.shape[2], trained |-> FALSE]

\* n_chans, input_window_samples = windows_dataset[0][0].shape
ShallowFBCSPNet(ds) ==
    [n_chans |-> ds.shape[1], n_classes |-> n_classes,
     input_window_samples |-> ds.shape[2], trained |-> FALSE]

\* torch before the cell has run
NoTorch == [device |-> "none", cudnn_benchmark |-> FALSE, seed |-> 0]

seed == 20200220

\* cuda = torch.cuda.is_available(); device = 'cuda' if cuda else 'cpu'
\* if cuda: torch.backends.cudnn.benchmark = True
\* set_random_seeds(seed=seed, cuda=cuda)
set_random_seeds(cuda) ==
    [device |-> IF cuda THEN "cuda" ELSE "cpu", cudnn_benchmark |-> cuda, seed |-> seed]

SetupModel ==
    /\ running("setup_model")
    /\ \E cuda \in BOOLEAN : torch' = set_random_seeds(cuda)
    /\ model' = ShallowFBCSPNet(windows_dataset)
    /\ ns' = ns \cup {"cuda", "device", "seed", "n_classes", "n_chans",
                      "input_window_samples", "model"}
    /\ pc' = "EEGClassifier"
    /\ UNCHANGED <<err, params, raw, events, seg_ptp, epochs, sfreq, ch_names,
                   X, y, windows_dataset, clf, df>>
    /\ UNCHANGED tfvars
    /\ UNCHANGED <<scores, scores_again>>

----------------------------------------------------------------------------
(* clf = EEGClassifier(model, ..., train_split=CVSplit(cv=10, stratified=True, *)
(*                     random_state=320), callbacks=["accuracy",           *)
(*                     ("lr_scheduler", ...)], ...)                        *)
(* clf.fit(windows_dataset, y=y, epochs=n_epochs)                          *)

n_epochs == 10
cv == 10

callbacks == {"accuracy", "lr_scheduler"}
has_train_split == TRUE

NoClassifier == [callbacks |-> {}, train_split |-> FALSE, history |-> << >>]

EEGClassifier == [callbacks |-> callbacks, train_split |-> has_train_split, history |-> << >>]

MakeClassifier ==
    /\ running("EEGClassifier")
    /\ clf' = EEGClassifier
    /\ ns' = ns \cup {"lr", "weight_decay", "batch_size", "n_epochs", "clf"}
    /\ pc' = "fit"
    /\ UNCHANGED <<err, params, raw, events, seg_ptp, epochs, sfreq, ch_names,
                   X, y, windows_dataset, model, df>>
    /\ UNCHANGED tfvars
    /\ UNCHANGED <<torch, scores, scores_again>>

\* (mutant) a classifier whose "accuracy" callback scores the validation set only
EpochColumns_ValidOnly(c) ==
    {"epoch", "dur", "train_loss"}
      \cup (IF c.train_split THEN {"valid_loss"} ELSE {})
      \cup (IF "accuracy" \in c.callbacks /\ c.train_split THEN {"valid_accuracy"} ELSE {})

\* the columns one finished training epoch writes to the history: the net's
\* own, the validation loss when there is a validation split, and the train
\* and validation accuracy of the "accuracy" callback
EpochColumns(c) ==
    {"epoch", "dur", "train_loss"}
      \cup (IF c.train_split THEN {"valid_loss"} ELSE {})
      \cup (IF "accuracy" \in c.callbacks
            THEN {"train_accuracy"} \cup (IF c.train_split THEN {"valid_accuracy"} ELSE {})
            ELSE {})
      \cup (IF "lr_scheduler" \in c.callbacks THEN {"event_lr"} ELSE {})

\* the history after epochs training epochs, numbered from 1
History(c, epochs_) ==
    [i \in 1..epochs_ |-> [epoch |-> i, columns |-> EpochColumns(c)]]

\* the stratified split needs a y as long as the dataset, with a class of
\* at least cv members
SplitFails(c, ds, labels) ==
    c.train_split /\ (labels.n # ds.n \/ labels.most < cv)

\* the network's spatial convolution spans exactly n_chans channels
ForwardFails(m, ds) == ds.shape[1] # m.n_chans

\* NLLLoss takes targets in 0 .. n_classes - 1
LossFails(m, ds) == ~(ds.y.labels \subseteq 0..(m.n_classes - 1))

\* the record skorch opens when an epoch begins
OpenedEpoch == <<[epoch |-> 1, columns |-> {"epoch"}]>>

random_state == 320

\* the convolution algorithms cuDNN can run the network's layers with
CudnnAlgos == {"implicit_gemm", "fft"}

\* The algorithm a run computes its convolutions with.  With cudnn.benchmark
\* on, cuDNN times its algorithms on the first batch and takes the fastest,
\* which can differ from one run to the next; otherwise the choice is fixed.
Algorithms(t) == IF t.cudnn_benchmark THEN CudnnAlgos ELSE {"fixed"}

\* The loss and accuracy values of one training epoch, named by what they
\* are computed from: the seed of the weights and of the batch order, the
\* seed of the validation split, the data, and the order of the floating
\* point sums, which the convolution algorithm decides.
Scores(t, ds, alg, epochs_) ==
    [i \in 1..epochs_ |->
        [epoch |-> i, seed |-> t.seed, random_state |-> random_state,
         n |-> ds.n, shape |-> ds.shape, alg |-> alg]]

Fit ==
    /\ running("fit")
    /\ IF SplitFails(clf, windows_dataset, y)
       THEN raise("ValueError") /\ UNCHANGED <<clf, model, scores, scores_again>>
       ELSE IF ForwardFails(model, windows_dataset)
       THEN /\ raise("RuntimeError")
            /\ clf' = [clf EXCEPT !.history = OpenedEpoch]
            /\ UNCHANGED <<model, scores, scores_again>>
       ELSE IF LossFails(model, windows_dataset)
       THEN /\ raise("IndexError")
            /\ clf' = [clf EXCEPT !.history = OpenedEpoch]
            /\ UNCHANGED <<model, scores, scores_again>>
       ELSE /\ clf' = [clf EXCEPT !.history = History(clf, n_epochs)]
            /\ \E a1, a2 \in Algorithms(torch) :
                  /\ scores' = Scores(torch, windows_dataset, a1, n_epochs)
                  /\ scores_again' = Scores(torch, windows_dataset, a2, n_epochs)
            /\ model' = [model EXCEPT !.trained = TRUE]
            /\ pc' = "plot_history"
            /\ UNCHANGED err
    /\ UNCHANGED <<ns, params, raw, events, seg_ptp, epochs, sfreq, ch_names,
                   X, y, windows_dataset, df>>
    /\ UNCHANGED tfvars
    /\ UNCHANGED torch

----------------------------------------------------------------------------
(* df = pd.DataFrame(clf.history[:, results_columns], columns=results_columns, *)
(*                   index=clf.history[:, 'epoch'])                        *)

results_columns == {"train_loss", "valid_loss", "train_accuracy", "valid_accuracy"}

NoFrame == [index |-> << >>, columns |-> {}]

\* history[:, cols] raises KeyError when a record lacks one of the columns
Readable(history, cols) == \A i \in 1..Len(history) : cols \subseteq history[i].columns

PlotHistory ==
    /\ running("plot_history")
    /\ IF ~Readable(clf.history, results_columns \cup {"epoch"})
       THEN raise("KeyError") /\ UNCHANGED <<ns, df>>
       ELSE /\ df' = [index |-> [i \in 1..Len(clf.history) |-> clf.history[i].epoch],
                      columns |-> results_columns \cup {"train_misclass", "valid_misclass"}]
            /\ ns' = ns \cup {"results_columns", "df"}
            /\ pc' = "done"
            /\ UNCHANGED err
    /\ UNCHANGED <<params, raw, events, seg_ptp, epochs, sfreq, ch_names,
                   X, y, windows_dataset, model, clf>>
    /\ UNCHANGED tfvars
    /\ UNCHANGED <<torch, scores, scores_again>>

----------------------------------------------------------------------------
(* The LIMO coherence / ITC notebook                                        *)
(* practical_classes/Week_4/coherence_ITC_limo_data_practical_week_4.ipynb  *)

\* levels of phase coherence a trial can have, in percent
CohLevels == {0, 45, 85}

\* A wavelet coefficient <<re, im>> of one trial in one (channel, frequency,
\* time) bin.  Every bin is computed the same way from its own coefficients,
\* so the model carries the coefficients of one bin per trial.  The
\* coefficients are nonzero and have integer magnitude, so that the
\* normalisation below is exact.
Coefs == {<<5, 0>>, <<-10, 0>>, <<3, 4>>}

\* phase vectors are held in units of 1 / UnitDen
UnitDen == 5

\* channel layouts of the epochs file: number of EEG channels, number of
\* other (EXG) channels after them, and the channels marked bad.  A channel
\* is named by its position in the file, counted from 0.
LimoLayouts ==
    {[n_eeg |-> n, n_exg |-> 4, bads |-> b] : n \in {37, 128}, b \in {{}, {3}}}

LimoNTimes == 201

NoLimoEpochs == [n_eeg |-> 0, n_exg |-> 0, bads |-> {}, n_times |-> 0, trials |-> << >>,
                 events |-> << >>]

\* the two conditions of limo_epochs.event_id
Conditions == {"Face/A", "Face/B"}

NoEvoked == [ch_names |-> << >>, n_times |-> 0, nave |-> [num |-> 0, den |-> 1]]

NoTFR == [ch_names |-> << >>, n_freqs |-> 0, n_times |-> 0, nave |-> 0,
          value |-> [num |-> 0, den |-> 1]]

\* limo_epochs = load_data(subject=subj).  The epochs are ordered by
\* condition: the first n_a are Face/A, the others Face/B.
load_data(layout, trials, n_a) ==
    [n_eeg |-> layout.n_eeg, n_exg |-> layout.n_exg, bads |-> layout.bads,
     n_times |-> LimoNTimes, trials |-> trials,
     events |-> [i \in 1..Len(trials) |-> IF i <= n_a THEN "Face/A" ELSE "Face/B"]]

\* the topographic-map cell has not run
NoTopo == [ran |-> FALSE, supplied |-> 0, plots |-> 0]

InitTF ==
    /\ limo_epochs = NoLimoEpochs
    /\ evoked = [c \in Conditions |-> NoEvoked]
    /\ difference_wave = NoEvoked
    /\ phase_coh = << >>
    /\ levels = << >>
    /\ picks = << >>
    /\ power_high = NoTFR
    /\ itc_high = NoTFR
    /\ power_low = NoTFR
    /\ itc_low = NoTFR
    /\ topo = NoTopo

LoadData ==
    /\ running("load_data")
    /\ \E layout \in LimoLayouts, n \in 2..MaxTrials :
         \E trials \in [1..n -> [coh : CohLevels, coef : Coefs]], n_a \in 1..(n - 1) :
            limo_epochs' = load_data(layout, trials, n_a)
    /\ ns' = ns \cup {"limo_epochs"}
    /\ pc' = "evoked"
    /\ UNCHANGED <<err, phase_coh, levels, picks, power_high, itc_high,
                   power_low, itc_low>>
    /\ UNCHANGED <<evoked, difference_wave>>
    /\ UNCHANGED topo
    /\ UNCHANGED decvars

\* the positions of the epochs of one condition: limo_epochs['Face/A']
Selected(e, cond) == {i \in 1..Len(e.events) : e.events[i] = cond}

\* (mutant) an average that keeps every channel of the collection
average_AllChannels(e, sel) ==
    [ch_names |-> [i \in 1..(e.n_eeg + e.n_exg) |-> i - 1],
     n_times |-> e.n_times,
     nave |-> [num |-> Cardinality(sel), den |-> 1]]

\* epochs.average(): the mean over the selected epochs, on the data (EEG)
\* channels of the collection, the bad ones included; the EXG channels are
\* not data channels and are left out
average(e, sel) ==
    [ch_names |-> SelectSeq([i \in 1..(e.n_eeg + e.n_exg) |-> i - 1],
                            LAMBDA i : i < e.n_eeg),
     n_times |-> e.n_times,
     nave |-> [num |-> Cardinality(sel), den |-> 1]]

\* limo_epochs['Face/A'].average().plot_joint(...)
\* limo_epochs['Face/B'].average().plot_joint(...)
PlotEvoked ==
    /\ running("evoked")
    /\ evoked' = [c \in Conditions |-> average(limo_epochs, Selected(limo_epochs, c))]
    /\ ns' = ns \cup {"ts_args"}
    /\ pc' = "difference_wave"
    /\ UNCHANGED <<err, limo_epochs, difference_wave, phase_coh, levels, picks,
                   power_high, itc_high, power_low, itc_low>>
    /\ UNCHANGED topo
    /\ UNCHANGED decvars

\* combine_evoked([a, b], weights=[1, -1]): a - b on the channels and samples
\* the two share; nave is 1 / (1 / nave_a + 1 / nave_b)
combine_evoked(a, b) ==
    [ch_names |-> a.ch_names, n_times |-> a.n_times,
     nave |-> [num |-> a.nave.num * b.nave.num, den |-> a.nave.num + b.nave.num]]

\* difference_wave = combine_evoked([limo_epochs['Face/A'].average(),
\*                                   limo_epochs['Face/B'].average()], weights=[1, -1])
DifferenceWave ==
    /\ running("difference_wave")
    /\ difference_wave' =
          combine_evoked(average(limo_epochs, Selected(limo_epochs, "Face/A")),
                         average(limo_epochs, Selected(limo_epochs, "Face/B")))
    /\ ns' = ns \cup {"difference_wave"}
    /\ pc' = "phase_coh"
    /\ UNCHANGED <<err, limo_epochs, evoked, phase_coh, levels, picks,
                   power_high, itc_high, power_low, itc_low>>
    /\ UNCHANGED topo
    /\ UNCHANGED decvars

\* sorted(s.unique())
RECURSIVE sorted(_)
sorted(S) ==
    IF S = {} THEN << >>
    ELSE LET m == CHOOSE a \in S : \A b \in S : a <= b
         IN  <<m>> \o sorted(S \ {m})

\* phase_coh = limo_epochs.metadata['phase-coherence']
\* levels = sorted(phase_coh.unique())
PhaseCoh ==
    /\ running("phase_coh")
    /\ phase_coh' = [i \in 1..Len(limo_epochs.trials) |-> limo_epochs.trials[i].coh]
    /\ levels' = sorted(Range(phase_coh'))
    /\ ns' = ns \cup {"phase_coh", "levels", "labels"}
    /\ pc' = "tfr_params"
    /\ UNCHANGED <<err, limo_epochs, picks, power_high, itc_high, power_low, itc_low>>
    /\ UNCHANGED <<evoked, difference_wave>>
    /\ UNCHANGED topo
    /\ UNCHANGED decvars

\* mne.pick_types(info, meg=False, eeg=True, eog=False, stim=False): the
\* positions of the EEG channels that are not marked bad, in file order
limo_pick_types(e) ==
    SelectSeq([i \in 1..(e.n_eeg + e.n_exg) |-> i - 1],
              LAMBDA i : i < e.n_eeg /\ i \notin e.bads)

\* freqs = np.logspace(*np.log10([6, 35]), num=8)
n_freqs == 8

decim == 3

\* picks = ...; freqs = ...; n_cycles = freqs / 2.
TfrParams ==
    /\ running("tfr_params")
    /\ picks' = limo_pick_types(limo_epochs)
    /\ ns' = ns \cup {"picks", "freqs", "n_cycles"}
    /\ pc' = "tfr_high"
    /\ UNCHANGED <<err, limo_epochs, phase_coh, levels, power_high, itc_high,
                   power_low, itc_low>>
    /\ UNCHANGED <<evoked, difference_wave>>
    /\ UNCHANGED topo
    /\ UNCHANGED decvars

\* limo_epochs[phase_coh == level]: the trials of one level, in order
TrialsAt(e, coh, level) ==
    LET idx == sorted({i \in 1..Len(coh) : coh[i] = level})
    IN  [k \in 1..Len(idx) |-> e.trials[idx[k]]]

ISqrt(n) == CHOOSE r \in 0..n : r * r <= n /\ n < (r + 1) * (r + 1)

\* |c|
Abs(c) == ISqrt(c[1] * c[1] + c[2] * c[2])

\* (mutant) the coefficient itself, its magnitude kept
PhaseVector_NotNormalised(c) == c

\* c / |c|: the coefficient with its magnitude set to 1
PhaseVector(c) == <<(c[1] * UnitDen) \div Abs(c), (c[2] * UnitDen) \div Abs(c)>>

RECURSIVE SumVec(_)
SumVec(s) ==
    IF s = << >> THEN <<0, 0>>
    ELSE <<Head(s)[1] + SumVec(Tail(s))[1], Head(s)[2] + SumVec(Tail(s))[2]>>

\* The inter-trial coherence of the trials: | mean of the phase vectors |.
\* The value is held as the fraction num / den of its square, which is exact:
\* |v| lies in [0, 1] exactly when |v|^2 does.
Itc(trials) ==
    LET s == SumVec([i \in 1..Len(trials) |-> PhaseVector(trials[i].coef)])
    IN  [num |-> s[1] * s[1] + s[2] * s[2],
         den |-> (UnitDen * Len(trials)) * (UnitDen * Len(trials))]

RECURSIVE SumSq(_)
SumSq(trials) ==
    IF trials = << >> THEN 0
    ELSE Head(trials).coef[1] * Head(trials).coef[1]
           + Head(trials).coef[2] * Head(trials).coef[2] + SumSq(Tail(trials))

\* the power of the trials: mean of |c|^2, as a fraction
Power(trials) == [num |-> SumSq(trials), den |-> Len(trials)]

\* number of samples kept by [::decim]
Decimated(n, d) == (n + d - 1) \div d

\* (mutant) the coherence estimate is returned at the full sampling rate
tfr_morlet_ItcNotDecimated(e, trials, picks_, d) ==
    LET out(v, nt) == [ch_names |-> picks_, n_freqs |-> n_freqs,
                       n_times |-> nt, nave |-> Len(trials), value |-> v]
    IN  [power |-> out(Power(trials), Decimated(e.n_times, d)),
         itc |-> out(Itc(trials), e.n_times)]

\* tfr_morlet(epochs, freqs=freqs, n_cycles=n_cycles, use_fft=True,
\*            return_itc=True, decim=d, n_jobs=1, picks=picks_)
tfr_morlet(e, trials, picks_, d) ==
    LET out(v) == [ch_names |-> picks_, n_freqs |-> n_freqs,
                   n_times |-> Decimated(e.n_times, d),
                   nave |-> Len(trials), value |-> v]
    IN  [power |-> out(Power(trials)), itc |-> out(Itc(trials))]

\* power_high, itc_high = tfr_morlet(limo_epochs[phase_coh == levels[-1]], ...)
TfrHigh ==
    /\ running("tfr_high")
    /\ LET r == tfr_morlet(limo_epochs,
                           TrialsAt(limo_epochs, phase_coh, levels[Len(levels)]),
                           picks, decim)
       IN  power_high' = r.power /\ itc_high' = r.itc
    /\ ns' = ns \cup {"power_high", "itc_high"}
    /\ pc' = "tfr_low"
    /\ UNCHANGED <<err, limo_epochs, phase_coh, levels, picks, power_low, itc_low>>
    /\ UNCHANGED <<evoked, difference_wave>>
    /\ UNCHANGED topo
    /\ UNCHANGED decvars

\* power_low, itc_low = tfr_morlet(limo_epochs[phase_coh == levels[0]], ...)
TfrLow ==
    /\ running("tfr_low")
    /\ LET r == tfr_morlet(limo_epochs,
                           TrialsAt(limo_epochs, phase_coh, levels[1]),
                           picks, decim)
       IN  power_low' = r.power /\ itc_low' = r.itc
    /\ ns' = ns \cup {"power_low", "itc_low"}
    /\ pc' = "pick"
    /\ UNCHANGED <<err, limo_epochs, phase_coh, levels, picks, power_high, itc_high>>
    /\ UNCHANGED <<evoked, difference_wave>>
    /\ UNCHANGED topo
    /\ UNCHANGED decvars

pick == 36

\* t.ch_names[i] / t.plot([i]) is defined
ValidPick(t, i) == 0 <= i /\ i < Len(t.ch_names)

\* pick = 36; print(power_high.ch_names[pick])
ChoosePick ==
    /\ running("pick")
    /\ ns' = ns \cup {"pick"}
    /\ IF ValidPick(power_high, pick)
       THEN pc' = "plot_power" /\ UNCHANGED err
       ELSE raise("IndexError")
    /\ UNCHANGED tfvars
    /\ UNCHANGED decvars

\* power_high.plot([pick], ...); power_low.plot([pick], ...)
PlotPower ==
    /\ running("plot_power")
    /\ IF ValidPick(power_high, pick) /\ ValidPick(power_low, pick)
       THEN pc' = "plot_topomap" /\ UNCHANGED err
       ELSE raise("IndexError")
    /\ UNCHANGED ns
    /\ UNCHANGED tfvars
    /\ UNCHANGED decvars

\* the names the assignment "fmin1, fmax1, fmin2, fmax2, tmin, tmax =" binds
TopoNames == {"fmin1", "fmax1", "fmin2", "fmax2", "tmin", "tmax"}

\* the largest number of values a reader writes after the "="
MaxSupplied == 7

\* (mutant) a cell that falls back on default ranges when nothing is supplied
topomap_cell_Defaults(k) ==
    IF k = 0 \/ k = Cardinality(TopoNames)
    THEN [err |-> "none", binds |-> {"bl", "ch", "fig", "axis"} \cup TopoNames, plots |-> 4]
    ELSE [err |-> "ValueError", binds |-> {"bl", "tmax", "ch"}, plots |-> 0]

\* The topographic-map cell with k values written after the "=" of
\*     fmin1, fmax1, fmin2, fmax2, tmin, tmax =
\* As the notebook has it (k = 0) the cell does not compile and none of its
\* statements runs; with a wrong number of values the unpacking fails after
\* the line above it has run; with six values the four plot_topomap calls run.
topomap_cell(k) ==
    IF k = 0
    THEN [err |-> "SyntaxError", binds |-> {}, plots |-> 0]
    ELSE IF k # Cardinality(TopoNames)
    THEN [err |-> "ValueError", binds |-> {"bl", "tmax", "ch"}, plots |-> 0]
    ELSE [err |-> "none", binds |-> {"bl", "ch", "fig", "axis"} \cup TopoNames, plots |-> 4]

PlotTopomap ==
    /\ running("plot_topomap")
    /\ \E k \in 0..MaxSupplied :
         LET r == topomap_cell(k)
         IN  /\ topo' = [ran |-> TRUE, supplied |-> k, plots |-> r.plots]
             /\ ns' = ns \cup r.binds
             /\ IF r.err = "none"
                THEN pc' = "plot_itc" /\ UNCHANGED err
                ELSE raise(r.err)
    /\ UNCHANGED <<limo_epochs, evoked, difference_wave, phase_coh, levels, picks,
                   power_high, itc_high, power_low, itc_low>>
    /\ UNCHANGED decvars

\* itc_high.plot(pick, ...); itc_low.plot(pick, ...)
\* power_low.plot(pick, ...); power_high.plot(pick, ...)
PlotItc ==
    /\ running("plot_itc")
    /\ IF \A t \in {itc_high, itc_low, power_low, power_high} : ValidPick(t, pick)
       THEN pc' = "done" /\ UNCHANGED err
       ELSE raise("IndexError")
    /\ UNCHANGED ns
    /\ UNCHANGED tfvars
    /\ UNCHANGED decvars

InitLimo ==
    /\ pc = "load_data"
    /\ err = "none"
    /\ ns = {}
    /\ params = NotebookParams
    /\ raw = NoRaw
    /\ events = << >>
    /\ seg_ptp = << >>
    /\ epochs = NoEpochs
    /\ sfreq = 0
    /\ ch_names = << >>
    /\ X = NoArray
    /\ y = NoLabels
    /\ windows_dataset = NoDataset
    /\ model = NoModel
    /\ clf = NoClassifier
    /\ df = NoFrame
    /\ torch = NoTorch
    /\ scores = << >>
    /\ scores_again = << >>
    /\ InitTF

NextTF ==
    \/ LoadData
    \/ PlotEvoked
    \/ DifferenceWave
    \/ PhaseCoh
    \/ TfrParams
    \/ TfrHigh
    \/ TfrLow
    \/ ChoosePick
    \/ PlotPower
    \/ PlotTopomap
    \/ PlotItc

SpecTF == InitLimo /\ [][NextTF]_vars

----------------------------------------------------------------------------
(* The decoding notebook, run top to bottom *)

\* the names each statement reads from the kernel namespace
Reads(stmt) ==
    CASE stmt = "read_raw"        -> {}
      [] stmt = "filter"          -> {"raw"}
      [] stmt = "find_events"     -> {"raw"}
      [] stmt = "mark_bads"       -> {"raw"}
      [] stmt = "Epochs"          -> {"raw", "events", "event_id", "tmin", "tmax"}
      [] stmt = "pick_types"      -> {"epochs"}
      [] stmt = "del_raw"         -> {"raw"}
      [] stmt = "ch_info"         -> {"epochs"}
      [] stmt = "create_from_X_y" -> {"X", "y", "sfreq", "ch_names"}
      [] stmt = "setup_model"     -> {"windows_dataset"}
      [] stmt = "EEGClassifier"   -> {"model", "device"}
      [] stmt = "fit"             -> {"clf", "windows_dataset", "y", "n_epochs"}
      [] stmt = "plot_history"    -> {"clf"}
      [] OTHER                    -> {}

\* the kernel the run starts in: fresh, or still holding an X and a y
InitKernel ==
    \/ ns = {} /\ X = NoArray /\ y = NoLabels
    \/ ns = {"X", "y"} /\ \E k \in StaleKernels : X = k.X /\ y = k.y

Init ==
    /\ InitPrepare
    /\ InitKernel
    /\ windows_dataset = NoDataset
    /\ model = NoModel
    /\ clf = NoClassifier
    /\ df = NoFrame
    /\ torch = NoTorch
    /\ scores = << >>
    /\ scores_again = << >>
    /\ InitTF

Next ==
    \/ ReadRaw
    \/ Filter
    \/ FindEvents
    \/ MarkBads
    \/ MakeEpochs
    \/ PickTypes
    \/ DelRaw
    \/ ChInfo
    \/ CreateDataset
    \/ SetupModel
    \/ MakeClassifier
    \/ Fit
    \/ PlotHistory

Spec == Init /\ [][Next]_vars

----------------------------------------------------------------------------
(* Properties of the decoding notebook *)

BoundEpochs == "epochs" \in ns

Retained == Range(epochs.selection)

\* event i is dropped for its amplitude
AmplitudeDropped(i) ==
    /\ i \in 1..Len(events)
    /\ events[i] \in EventCodes
    /\ i \notin Retained

\* the thresholded channels the collection holds that are not marked bad
MonitoredNow ==
    {c \in Range(epochs.ch) : c.kind \in DOMAIN epochs.reject /\ c.name \notin Range(epochs.bads)}

\* C1: the epoch collection holds at most as many epochs as there are events,
\* and every retained epoch is at or below the threshold of its type on every
\* monitored channel (EEG and EOG before pick_types, EEG after it).
C1_RetainedWithinThresholds ==
    BoundEpochs =>
        /\ Len(epochs.selection) <= Len(events)
        /\ Retained \subseteq 1..Len(events)
        /\ \A i \in Retained : \A c \in MonitoredNow :
              seg_ptp[i][c.name] <= epochs.reject[c.kind]

\* C1 witness: after pick_types, one event was dropped for its amplitude and
\* another is retained.
C1_Witness ==
    /\ BoundEpochs
    /\ pc = "del_raw"
    /\ Retained # {}
    /\ \E i \in 1..Len(events) : AmplitudeDropped(i)

AfterPrepareCell ==
    {"create_from_X_y", "setup_model", "EEGClassifier", "fit", "plot_history", "done"}

EmptyEpochs == BoundEpochs /\ epochs.selection = << >>

\* C2: once rejection has dropped every epoch the run stops in the cell that
\* built the collection: no later cell executes.
C2_EmptyEpochsStopTheRun == EmptyEpochs => pc \notin AfterPrepareCell

\* C2: a state the claim rules out: dataset, model and fit have all run while
\* the epoch collection is empty.
C2_TrainedOnEmptyEpochs == EmptyEpochs /\ model.trained

\* the events the thresholds do not reject, from the inputs alone
NotRejected ==
    {i \in 1..Len(events) :
        /\ events[i] \in EventCodes
        /\ \A c \in Range(FileChannels) :
              (c.kind \in DOMAIN params.reject /\ c.name \notin Range(epochs.bads))
                  => seg_ptp[i][c.name] <= params.reject[c.kind]}

\* C3: rejection never stops the run.  The epoching statement raises only
\* when a condition of event_id has no event; when it has run and left an
\* epoch, the collection holds exactly the events no threshold rejects, every
\* other event has an entry in the drop log, and the run goes on.
C3_DropsAreNotFatal ==
    /\ (pc = "Epochs" /\ err # "none") => ~AllConditionsPresent(events)
    /\ (BoundEpochs /\ epochs.selection # << >>) =>
          /\ Retained = NotRejected
          /\ \A i \in 1..Len(events) : (i \notin Retained) = (epochs.drop_log[i] # << >>)
          /\ pc # "Epochs"
          /\ pc = "pick_types" => err = "none"

\* C3 witness: the cell after epoching has run on a collection that lost an
\* epoch to the thresholds and kept another.
C3_Witness ==
    /\ "ch_names" \in ns
    /\ Retained # {}
    /\ \E i \in 1..Len(events) : AmplitudeDropped(i) /\ epochs.drop_log[i] # << >>

AfterPickTypes == AfterPrepareCell \cup {"del_raw", "ch_info"}

\* C4: after pick_types no channel of the bad-channel list is in the epoch
\* collection, in ch_names or in the windowed dataset's channel names.
C4_NoBadChannelDownstream ==
    pc \in AfterPickTypes =>
        /\ Range(ExtraBads) \subseteq Range(epochs.bads)
        /\ Range(ChannelNames(epochs)) \cap Range(epochs.bads) = {}
        /\ "ch_names" \in ns => Range(ch_names) \cap Range(epochs.bads) = {}
        /\ "windows_dataset" \in ns =>
              Range(windows_dataset.ch_names) \cap Range(epochs.bads) = {}

\* C4 witness: the dataset is built, and epoching had picked a channel that
\* is in the bad-channel list.
C4_Witness ==
    /\ "windows_dataset" \in ns
    /\ windows_dataset.ch_names # << >>
    /\ "EEG 053" \in Range(epochs.bads) \cap PickedNames([ch |-> FileChannels])

BoundRaw == "raw" \in ns

\* the cutoffs are those of a band-pass the recording can carry
ValidBandPass ==
    0 < params.l_freq /\ params.l_freq < params.h_freq
      /\ params.h_freq < Nyquist(raw.sfreq)

C9_HistoryPerEpoch ==
    pc \in {"plot_history", "done"} =>
        /\ Len(clf.history) = n_epochs
        /\ \A i \in 1..n_epochs :
              /\ clf.history[i].epoch = i
              /\ results_columns \subseteq clf.history[i].columns
        /\ err = "none"
        /\ pc = "done" => df.index = [i \in 1..n_epochs |-> i]

\* C9 witness: the plotting cell has built its frame from the history of a
\* finished fit.
C9_Witness == pc = "done" /\ model.trained /\ "df" \in ns /\ Len(df.index) = n_epochs

----------------------------------------------------------------------------
(* Properties of the LIMO notebook *)

InUnitInterval(q) == q.den > 0 /\ 0 <= q.num /\ q.num <= q.den

Shape(t) == <<Len(t.ch_names), t.n_freqs, t.n_times>>

\* C8: power and coherence of one call have the same shape; after both calls
\* all four outputs have the same channels and the same shape, so the index
\* pick is valid in all of them or in none; and once the cell that reads
\* power_high.ch_names[pick] has completed, pick is valid in all four.
C8_SameShape ==
    /\ "itc_high" \in ns => Shape(power_high) = Shape(itc_high)
    /\ "itc_low" \in ns =>
          /\ Shape(power_low) = Shape(itc_low)
          /\ Shape(power_low) = Shape(power_high)
          /\ power_high.ch_names = itc_high.ch_names
          /\ power_low.ch_names = power_high.ch_names
          /\ itc_low.ch_names = power_high.ch_names
          /\ \A t \in {itc_high, power_low, itc_low} :
                ValidPick(t, pick) <=> ValidPick(power_high, pick)
    /\ pc \in {"plot_power", "plot_topomap"} =>
          \A t \in {power_high, itc_high, power_low, itc_low} : ValidPick(t, pick)

\* C8 witness: the power plots were drawn for channel pick; the two subsets
\* differ in their number of trials, and a bad channel was left out of picks.
C8_Witness ==
    /\ pc = "plot_topomap"
    /\ power_high.nave # power_low.nave
    /\ limo_epochs.bads # {}
    /\ Shape(itc_low) = <<limo_epochs.n_eeg - 1, n_freqs, Decimated(LimoNTimes, decim)>>

----------------------------------------------------------------------------
(* Lifecycle of the model and order of the cells (decoding notebook) *)

PastFit == {"plot_history", "done"}

\* C11: the model's only transition is not-trained -> trained.  A trained
\* model stays trained; a step of the fit statement either trains the model
\* and moves on to the plotting cell, or fails and leaves the model untrained;
\* after a failed fit nothing happens any more; the fit statement is never
\* entered again once it has completed; and the frame for plotting is built
\* from the history only while the model is trained.
C11_Lifecycle ==
    [][/\ model.trained => model'.trained
       /\ (pc = "fit" /\ err # "none") => FALSE
       /\ pc = "fit" =>
             \/ pc' = "fit" /\ err' # "none" /\ ~model'.trained
             \/ pc' = "plot_history" /\ err' = "none" /\ model'.trained
       /\ pc \in PastFit => pc' \in PastFit
       /\ df' # df => model.trained /\ pc = "plot_history"]_vars

\* C11 witness: a fit has failed after it opened the first history record;
\* the model is untrained and the run has stopped at the fit statement.
C11_Witness ==
    /\ pc = "fit"
    /\ err \in {"RuntimeError", "IndexError"}
    /\ clf.history = OpenedEpoch
    /\ ~model.trained

\* C12: with the seeds fixed, a second run of the same training over the
\* same dataset gives the history the first run gave, whichever device the
\* notebook selected.
C12_SameHistoryOnRerun ==
    model.trained => scores = scores_again

\* C12: a state the claim rules out: trained on CUDA with cudnn.benchmark on,
\* seeds as the notebook sets them, and the two runs' histories differ.
C12_RerunDiffersOnCuda ==
    /\ model.trained
    /\ torch = set_random_seeds(TRUE)
    /\ Len(scores) = n_epochs /\ Len(scores_again) = n_epochs
    /\ scores # scores_again

----------------------------------------------------------------------------
(* Condition averages of the LIMO notebook *)

EvokedPlotted == pc \notin {"load_data", "evoked"}

\* the two condition subsets are disjoint and together hold every epoch
ConditionsPartition ==
    /\ Selected(limo_epochs, "Face/A") \cap Selected(limo_epochs, "Face/B") = {}
    /\ Selected(limo_epochs, "Face/A") \cup Selected(limo_epochs, "Face/B")
          = 1..Len(limo_epochs.trials)

\* C13 as claimed: the condition subsets partition the epochs, and each
\* condition's average has the channel count and the sample length of the
\* epoch collection.
C13_EvokedHasEpochsChannels ==
    EvokedPlotted =>
        /\ ConditionsPartition
        /\ \A c \in Conditions :
              /\ Len(evoked[c].ch_names) = limo_epochs.n_eeg + limo_epochs.n_exg
              /\ evoked[c].n_times = limo_epochs.n_times

\* C13 amended: the condition subsets partition the epochs; each condition's
\* average is one waveform over that condition's epochs, with the sample
\* length of the collection and with its data (EEG) channels, bad ones
\* included: the EXG channels of the collection are not in the average.
C13_EvokedHasDataChannels ==
    EvokedPlotted =>
        /\ ConditionsPartition
        /\ \A c \in Conditions :
              /\ Len(evoked[c].ch_names) = limo_epochs.n_eeg
              /\ \A i \in 1..Len(evoked[c].ch_names) :
                    evoked[c].ch_names[i] < limo_epochs.n_eeg
              /\ limo_epochs.bads \subseteq Range(evoked[c].ch_names)
              /\ evoked[c].n_times = limo_epochs.n_times
              /\ evoked[c].nave.num = Cardinality(Selected(limo_epochs, c))
              /\ evoked[c].nave.num >= 1
        /\ evoked["Face/A"].nave.num + evoked["Face/B"].nave.num
              = Len(limo_epochs.trials)

\* C13 witness: both averages are computed; Face/A has more epochs than
\* Face/B, the collection has 128 EEG and 4 EXG channels, one EEG channel bad.
C13_Witness ==
    /\ pc = "difference_wave"
    /\ evoked["Face/A"].nave.num > evoked["Face/B"].nave.num
    /\ evoked["Face/B"].nave.num >= 1
    /\ limo_epochs.n_eeg = 128 /\ limo_epochs.n_exg = 4
    /\ limo_epochs.bads # {}

----------------------------------------------------------------------------
(* Names read by the cells of the decoding notebook *)

\* C14: whenever a statement of the decoding notebook is about to run, every
\* name it reads is bound: assigned by an earlier cell and not deleted since.
C14_ReadsAreBound ==
    err = "none" => Reads(pc) \subseteq ns

\* C14: a state the claim rules out: in a fresh kernel the run has stopped at
\* create_from_X_y with a NameError, X and y never having been assigned; raw
\* was deleted before and is not read again.
C14_NameErrorInFreshKernel ==
    /\ pc = "create_from_X_y"
    /\ err = "NameError"
    /\ "X" \notin ns /\ "y" \notin ns
    /\ "raw" \notin ns
    /\ {"sfreq", "ch_names", "epochs"} \subseteq ns

----------------------------------------------------------------------------
(* The topographic-map cell of the LIMO notebook *)

\* C15: topographic maps are drawn only when all six values were written
\* into the cell, and then the six names are bound; with none written, as
\* the notebook has it, the cell stops the run with no map drawn and none of
\* the six names bound.
C15_NoTopomapWithoutRanges ==
    /\ topo.plots > 0 => topo.supplied = Cardinality(TopoNames) /\ TopoNames \subseteq ns
    /\ ~topo.ran => topo.plots = 0
    /\ (topo.ran /\ topo.supplied = 0) =>
          /\ pc = "plot_topomap"
          /\ err = "SyntaxError"
          /\ topo.plots = 0
          /\ TopoNames \cap ns = {}

\* C15 witness: the cell as the notebook has it has stopped the run; the
\* power plots before it were drawn.
C15_Witness ==
    /\ topo.ran /\ topo.supplied = 0
    /\ pc = "plot_topomap"
    /\ err = "SyntaxError"
    /\ "power_low" \in ns

----------------------------------------------------------------------------
(* The filter the decoding notebook applies *)

\* the notebook's own literals, the recording filtered and still bound
FilteredAsWritten ==
    params = NotebookParams /\ BoundRaw /\ pc \notin {"read_raw", "filter"}

----------------------------------------------------------------------------
(* Shape and classes of the network (decoding notebook) *)

====
